---- MODULE Spec2Model ----
(***************************************************************************)
(* A model of src/sentry/testutils/silo.py: the fence scanner              *)
(* (validate_protected_queries), the silo-mode test decorators             *)
(* (SiloModeTestDecorator / _SiloModeTestModification), the configuration  *)
(* contexts (test_config, assume_test_silo_mode) and the model validators  *)
(* (validate_models_have_silos, validate_no_cross_silo_foreign_keys).      *)
(*                                                                         *)
(* Each component has a specification of its own over the same variables:  *)
(*   SpecScan         the fence scanner walking a statement log            *)
(*   SpecMux          class statements and decorator calls                 *)
(*   SpecRun          executions of decorated units under their contexts   *)
(*   SpecSilos        validate_models_have_silos over model metadata       *)
(*   SpecForeignKeys  validate_no_cross_silo_foreign_keys over the same    *)
(* In a specification the variables of the other components stay idle.     *)
(***************************************************************************)
EXTENDS Integers, Sequences, FiniteSets, TLC

VARIABLES
    \* ---- fence scanner (validate_protected_queries) ----
    queries,            \* the statement log being scanned
    index,              \* 0-based loop index: statements consumed so far
    fence_depth,        \* local fence_depth
    start_fence_index,  \* local start_fence_index
    scan,               \* outcome: [status, start, end_, at]
    \* ---- decorations (SiloModeTestDecorator, _SiloModeTestModification) ----
    flags,              \* [SENTRY_USE_MONOLITH_DBS, FORCE_SILOED_TESTS]
    objs,               \* the objects of the test modules, by identity (index)
    module,             \* sys.modules[...] namespace: name -> object identity
    applied,            \* the last decorator call and its outcome
    \* ---- executions and configuration contexts ----
    settings,           \* the process-wide settings (django settings, regions)
    stack,              \* the contexts now established, innermost last
    run,                \* the test execution in progress
    \* ---- model validators ----
    meta,               \* the model metadata: model name -> its record
    exempt,             \* the caller's arguments: exemptions and app_name
    val                 \* the validator call in progress and its outcome

scanVars == <<queries, index, fence_depth, start_fence_index, scan>>

muxVars == <<flags, objs, module, applied>>

runVars == <<settings, stack, run>>

valVars == <<meta, exempt, val>>

vars == <<queries, index, fence_depth, start_fence_index, scan,
          flags, objs, module, applied, settings, stack, run, meta, exempt, val>>

(***************************************************************************)
(* The idle values a component's variables keep in the specifications of   *)
(* the other components.                                                   *)
(***************************************************************************)

\* No scan is running.
ScanIdle ==
    /\ queries = <<>>
    /\ index = 0
    /\ fence_depth = 0
    /\ start_fence_index = 0
    /\ scan = [status |-> "idle", error |-> "none", start |-> 0, end_ |-> 0, at |-> 0]

\* No decorator was called yet.
NoApplied ==
    [status |-> "none", error |-> "none", target |-> 0, value |-> 0,
     mod |-> [silo_modes |-> {}, regions |-> <<>>, stable |-> FALSE],
     expanded |-> FALSE, calls |-> 0, regions_arg |-> <<>>]

\* No test module is imported.
MuxIdle ==
    /\ flags = [SENTRY_USE_MONOLITH_DBS |-> FALSE, FORCE_SILOED_TESTS |-> FALSE]
    /\ objs = <<>>
    /\ module = <<>>
    /\ applied = NoApplied

\* The settings of a test process before any context is established.
BaseSettings ==
    [SILO_MODE |-> "MONOLITH", SENTRY_REGION |-> "", SENTRY_MONOLITH_REGION |-> "",
     SENTRY_SUBNET_SECRET |-> "", SENTRY_CONTROL_ADDRESS |-> "", regions |-> <<>>]

NoRun ==
    [status |-> "idle", unit |-> 0, method |-> "", plane |-> "", todo |-> <<>>,
     raised |-> FALSE]

\* No test is executing.
RunIdle ==
    /\ settings = BaseSettings
    /\ stack = <<>>
    /\ run = NoRun

NoVal ==
    [fn |-> "", status |-> "idle", error |-> "none", mi |-> 0, fi |-> 0, seen |-> {},
     pass |-> 0, first |-> "none",
     last |-> [model |-> "", fi |-> 0, outcome |-> "none"]]

\* No validator is running.
ValIdle ==
    /\ meta = <<>>
    /\ exempt = [models |-> {}, pairs |-> {}, app_name |-> "None"]
    /\ val = NoVal

Max(a, b) == IF a >= b THEN a ELSE b
Min(a, b) == IF a <= b THEN a ELSE b


(***************************************************************************)
(* Decorations: SiloModeTestDecorator and _SiloModeTestModification.apply  *)
(***************************************************************************)

\* Most objects (classes, functions) the modules may come to hold.
MaxObjs == 7

\* Most decorator calls in a run.
MaxDecorations == 2

\* Most classes the test modules define themselves (class statements).
MaxUserClasses == 2

SiloModes == {"MONOLITH", "CONTROL", "REGION"}

\* _DEFAULT_TEST_REGIONS, by region name.
_DEFAULT_TEST_REGIONS == <<"us", "eu", "acme-single-tenant">>

\* An explicit regions argument a caller may pass.
RegionsOverride == <<"de", "us">>

\* _get_test_name_suffix(silo_mode)
_get_test_name_suffix(silo_mode) ==
    CASE silo_mode = "MONOLITH" -> "__InMonolithMode"
      [] silo_mode = "CONTROL" -> "__InControlMode"
      [] silo_mode = "REGION" -> "__InRegionMode"

\* SiloModeTestDecorator.__init__(*silo_modes): MONOLITH is filtered out.
SiloModeTestDecorator(silo_modes) == silo_modes \ {"MONOLITH"}

all_silo_test == SiloModeTestDecorator({"CONTROL", "REGION"})
no_silo_test == SiloModeTestDecorator({})
control_silo_test == SiloModeTestDecorator({"CONTROL"})
region_silo_test == SiloModeTestDecorator({"REGION"})

Decorators == {all_silo_test, no_silo_test, control_silo_test, region_silo_test}

\* The dataclass defaults of _SiloModeTestModification.
include_monolith_run == TRUE
run_original_class_in_silo_mode == FALSE

\* An attribute that is not set on the object itself.
NoMarker == [set |-> FALSE, modes |-> {}]
NoWrap == [on |-> FALSE, mode |-> "MONOLITH", regions |-> <<>>]

\* unittest.TestCase, a test function, and a class that is no TestCase.
TestCaseObj ==
    [kind |-> "class", name |-> "TestCase", bases |-> <<>>, marker |-> NoMarker,
     wrap |-> NoWrap, params |-> {}]
TestFunctionObj ==
    [kind |-> "function", name |-> "test_fn", bases |-> <<>>, marker |-> NoMarker,
     wrap |-> NoWrap, params |-> {}]
HelperObj ==
    [kind |-> "class", name |-> "Helper", bases |-> <<>>, marker |-> NoMarker,
     wrap |-> NoWrap, params |-> {}]

TestCaseId == 1

UserClassNames == <<"MyTest", "OtherTest", "ThirdTest">>

Range(f) == {f[i] : i \in DOMAIN f}

\* The class itself and its direct and transitive base classes.
RECURSIVE Ancestors(_, _)
Ancestors(os, id) == {id} \cup UNION {Ancestors(os, b) : b \in Range(os[id].bases)}

\* A plausible slip: any class is taken for a TestCase class.
IsAnyClass(os, id) == os[id].kind = "class"

\* issubclass(o, TestCase), walking __bases__.
RECURSIVE IsSubclassOfTestCase(_, _)
IsSubclassOfTestCase(os, id) ==
    \/ id = TestCaseId
    \/ \E b \in Range(os[id].bases) : IsSubclassOfTestCase(os, b)

\* getattr(cls, "_silo_modes", None): the class's own attribute, else the
\* first one found along its bases; an unset marker stands for None.
RECURSIVE GetSiloModesAttr(_, _)
FirstSet(os, bases) ==
    IF \E i \in DOMAIN bases : GetSiloModesAttr(os, bases[i]).set
    THEN LET i == CHOOSE i \in DOMAIN bases :
                     /\ GetSiloModesAttr(os, bases[i]).set
                     /\ \A j \in DOMAIN bases :
                            GetSiloModesAttr(os, bases[j]).set => i <= j
         IN  GetSiloModesAttr(os, bases[i])
    ELSE NoMarker
GetSiloModesAttr(os, id) ==
    IF os[id].marker.set THEN os[id].marker ELSE FirstSet(os, os[id].bases)

\* Python's truth value of getattr(current_class, "_silo_modes", None):
\* None and the empty frozenset are both false.
Truthy(attr) == attr.set /\ attr.modes # {}

\* _validate_that_no_ancestor_is_silo_decorated: the breadth-first walk over
\* class_queue; TRUE when it raises AncestorAlreadySiloDecoratedException.
RECURSIVE AncestorIsSiloDecorated(_, _)
AncestorIsSiloDecorated(os, class_queue) ==
    IF class_queue = <<>> THEN FALSE
    ELSE LET current_class == Head(class_queue)
         IN  IF Truthy(GetSiloModesAttr(os, current_class))
             THEN TRUE
             ELSE AncestorIsSiloDecorated(os, Tail(class_queue) \o os[current_class].bases)

\* A plausible slip: the single-mode case keeps the original class for the
\* silo mode and adds a monolith sibling.
ArrangeOriginalInSiloMode(silo_modes, inc, orig) ==
    IF Cardinality(silo_modes) = 1
    THEN [primary |-> CHOOSE m \in silo_modes : TRUE, secondary |-> {"MONOLITH"}]
    ELSE [primary |-> "MONOLITH", secondary |-> silo_modes]

\* _arrange_silo_modes: (primary, secondary) from silo_modes and the switches.
_arrange_silo_modes(silo_modes, inc, orig) ==
    IF Cardinality(silo_modes) = 1 /\ ~inc
    THEN [primary |-> CHOOSE m \in silo_modes : TRUE, secondary |-> {}]
    ELSE IF Cardinality(silo_modes) = 1 /\ orig
    THEN [primary |-> CHOOSE m \in silo_modes : TRUE, secondary |-> {"MONOLITH"}]
    ELSE [primary |-> "MONOLITH", secondary |-> silo_modes]

\* _create_overriding_test_class: a new class named name + suffix whose only
\* base is test_class and whose _callSetUp and _callTestMethod enter
\* test_config(silo_mode) around the methods looked up on test_class.
_create_overriding_test_class(os, mod, test_class, silo_mode, name_suffix) ==
    [kind |-> "class", name |-> os[test_class].name \o name_suffix,
     bases |-> <<test_class>>, marker |-> NoMarker,
     wrap |-> [on |-> TRUE, mode |-> silo_mode, regions |-> mod.regions],
     params |-> {}]

\* The test_config contexts a call of _callSetUp or _callTestMethod on a class
\* enters, outermost first: a generated class's wrapper enters its own and
\* then calls the method it looked up on its only base; any other class
\* inherits the method of the first base that has one.
RECURSIVE WrapChain(_, _)
InheritedChain(os, bases) ==
    IF \E i \in DOMAIN bases : WrapChain(os, bases[i]) # <<>>
    THEN LET i == CHOOSE i \in DOMAIN bases :
                     /\ WrapChain(os, bases[i]) # <<>>
                     /\ \A j \in DOMAIN bases : WrapChain(os, bases[j]) # <<>> => i <= j
         IN  WrapChain(os, bases[i])
    ELSE <<>>
WrapChain(os, id) ==
    IF os[id].wrap.on
    THEN <<os[id].wrap>> \o WrapChain(os, os[id].bases[1])
    ELSE InheritedChain(os, os[id].bases)

\* The order in which the secondary modes are iterated.
ModeOrder == <<"CONTROL", "MONOLITH", "REGION">>
ModesInOrder(ms) == SelectSeq(ModeOrder, LAMBDA m : m \in ms)

\* setattr(module, name, obj) / the binding of a name in the module namespace.
Bind(md, name, id) == [n \in DOMAIN md \cup {name} |-> IF n = name THEN id ELSE md[n]]

RECURSIVE BindAll(_, _, _)
BindAll(md, os, ids) ==
    IF ids = <<>> THEN md
    ELSE BindAll(Bind(md, os[Head(ids)].name, Head(ids)), os, Tail(ids))

\* _add_siloed_test_classes_to_module: one sibling per secondary mode, set on
\* the module under its suffixed name; the class for the primary mode is the
\* return value.
_add_siloed_test_classes_to_module(os, md, mod, test_class) ==
    LET arr == _arrange_silo_modes(mod.silo_modes, include_monolith_run,
                                   run_original_class_in_silo_mode)
        secondary_modes == ModesInOrder(arr.secondary)
        siblings == [i \in DOMAIN secondary_modes |->
                        _create_overriding_test_class(os, mod, test_class,
                            secondary_modes[i],
                            _get_test_name_suffix(secondary_modes[i]))]
        os2 == os \o siblings
        md2 == BindAll(md, os2, [i \in DOMAIN siblings |-> Len(os) + i])
        primary == _create_overriding_test_class(os, mod, test_class, arr.primary, "")
    IN  [status |-> "returned", error |-> "none", value |-> Len(os2) + 1,
         objs |-> Append(os2, primary), module |-> md2, expanded |-> TRUE]

\* _mark_parameterized_by_silo_mode: the replacement function enters
\* test_config(silo_mode) for the silo_mode it is called with, and is
\* parametrized over silo_modes | {MONOLITH}.
_mark_parameterized_by_silo_mode(os, md, mod, test_method) ==
    LET new_test_method ==
            [kind |-> "function", name |-> os[test_method].name,
             bases |-> <<test_method>>, marker |-> NoMarker,
             wrap |-> [on |-> TRUE, mode |-> "MONOLITH", regions |-> mod.regions],
             params |-> mod.silo_modes \cup {"MONOLITH"}]
    IN  [status |-> "returned", error |-> "none", value |-> Len(os) + 1,
         objs |-> Append(os, new_test_method), module |-> md, expanded |-> TRUE]

\* A plausible slip: the force-siloed-tests flag is not consulted.
ForceMonolithStableOnly(fl, mod) == fl.SENTRY_USE_MONOLITH_DBS \/ ~mod.stable

\* if SENTRY_USE_MONOLITH_DBS or not (self.stable or settings.FORCE_SILOED_TESTS)
ForceMonolith(fl, mod) ==
    fl.SENTRY_USE_MONOLITH_DBS \/ ~(mod.stable \/ fl.FORCE_SILOED_TESTS)

\* _SiloModeTestModification.apply(decorated_obj): the outcome, with the
\* objects and the module namespace as it leaves them.
apply(os, md, fl, mod, decorated_obj) ==
    LET is_test_case_class ==
            os[decorated_obj].kind = "class" /\ IsSubclassOfTestCase(os, decorated_obj)
        is_function == os[decorated_obj].kind = "function"
        marked == IF is_test_case_class
                  THEN [os EXCEPT ![decorated_obj].marker =
                                      [set |-> TRUE, modes |-> mod.silo_modes]]
                  ELSE os
    IN  IF ~(is_test_case_class \/ is_function)
        THEN [status |-> "raised", error |-> "ValueError", value |-> 0,
              objs |-> os, module |-> md, expanded |-> FALSE]
        ELSE IF is_test_case_class /\ AncestorIsSiloDecorated(os, <<decorated_obj>>)
        THEN [status |-> "raised", error |-> "AncestorAlreadySiloDecoratedException",
              value |-> 0, objs |-> os, module |-> md, expanded |-> FALSE]
        ELSE IF ForceMonolith(fl, mod)
        THEN [status |-> "returned", error |-> "none", value |-> decorated_obj,
              objs |-> marked, module |-> md, expanded |-> FALSE]
        ELSE IF is_test_case_class
        THEN _add_siloed_test_classes_to_module(marked, md, mod, decorated_obj)
        ELSE _mark_parameterized_by_silo_mode(marked, md, mod, decorated_obj)

\* A plausible slip: the regions argument is ignored.
ModificationDefaultRegions(silo_modes, stable, regions) ==
    [silo_modes |-> silo_modes, regions |-> _DEFAULT_TEST_REGIONS, stable |-> stable]

\* SiloModeTestDecorator.__call__: the modification a decorator call builds.
Modification(silo_modes, stable, regions) ==
    [silo_modes |-> silo_modes,
     regions |-> IF regions = <<>> THEN _DEFAULT_TEST_REGIONS ELSE regions,
     stable |-> stable]

\* The modules as imported, before any decorator ran.
InitMux ==
    /\ ScanIdle
    /\ RunIdle
    /\ ValIdle
    /\ flags \in [SENTRY_USE_MONOLITH_DBS : BOOLEAN, FORCE_SILOED_TESTS : BOOLEAN]
    /\ objs = <<TestCaseObj, TestFunctionObj, HelperObj>>
    /\ module = [n \in {"TestCase", "test_fn", "Helper"} |->
                    CASE n = "TestCase" -> 1 [] n = "test_fn" -> 2 [] n = "Helper" -> 3]
    /\ applied = NoApplied

Bound(md) == {md[n] : n \in DOMAIN md}

UserClasses(os) ==
    {i \in DOMAIN os : os[i].kind = "class" /\ ~os[i].wrap.on
                        /\ os[i].name \in Range(UserClassNames)}

\* The bases a class statement may name: one or two classes of the module,
\* at most one of them a TestCase (no diamonds, so that the depth-first
\* lookups above are the method resolution order).
BaseLists(os, md) ==
    LET cls == {i \in Bound(md) : os[i].kind = "class"}
    IN  {<<b>> : b \in cls}
        \cup {<<a, b>> : a \in {x \in cls : ~IsSubclassOfTestCase(os, x)},
                         b \in {x \in cls : IsSubclassOfTestCase(os, x)}}

\* A class statement: class <name>(<bases>) in a test module.
DefineClass(bases) ==
    /\ Cardinality(UserClasses(objs)) < MaxUserClasses
    /\ Len(objs) < MaxObjs
    /\ LET name == UserClassNames[Cardinality(UserClasses(objs)) + 1]
           cls == [kind |-> "class", name |-> name, bases |-> bases,
                   marker |-> NoMarker, wrap |-> NoWrap, params |-> {}]
       IN  /\ objs' = Append(objs, cls)
           /\ module' = Bind(module, name, Len(objs) + 1)
    /\ UNCHANGED <<flags, applied>>

\* The decorator syntax: the name of the decorated object is bound to what
\* the decorator returned.
Rebind(os, obj, out) ==
    IF out.status = "returned" THEN Bind(out.module, os[obj].name, out.value)
    ELSE out.module

\* A decorator call on an object a test module defines (unittest's TestCase
\* itself is not one), decorator(obj, stable=..., regions=...). A function
\* that is already parametrized over silo_mode is not decorated again (the
\* test runner rejects a second parametrization of the same argument).
Decorate(silo_modes, stable, regions, obj) ==
    /\ applied.calls < MaxDecorations
    /\ Len(objs) + Cardinality(silo_modes) + 1 <= MaxObjs
    /\ objs[obj].params = {}
    /\ LET mod == Modification(silo_modes, stable, regions)
           out == apply(objs, module, flags, mod, obj)
       IN  /\ objs' = out.objs
           /\ module' = Rebind(objs, obj, out)
           /\ applied' = [status |-> out.status, error |-> out.error, target |-> obj,
                          value |-> out.value, mod |-> mod, expanded |-> out.expanded,
                          calls |-> applied.calls + 1, regions_arg |-> regions]
    /\ UNCHANGED flags

NextMux ==
    \/ \E bases \in BaseLists(objs, module) :
          DefineClass(bases) /\ UNCHANGED <<scanVars, runVars, valVars>>
    \/ \E d \in Decorators, stable \in BOOLEAN, regions \in {<<>>, RegionsOverride},
          obj \in Bound(module) \ {TestCaseId} :
          Decorate(d, stable, regions, obj) /\ UNCHANGED <<scanVars, runVars, valVars>>

SpecMux == InitMux /\ [][NextMux]_vars

(***************************************************************************)
(* Claims about the decorators                                             *)
(***************************************************************************)

\* A step that is a decorator call.
IsDecoration == applied'.calls = applied.calls + 1

\* The objects a step created.
Created == (Len(objs) + 1)..Len(objs')

\* The decision the claims state: monolith-database-only mode, or neither
\* stable nor the force-siloed-tests flag.
ClaimCollapses(mod) ==
    flags.SENTRY_USE_MONOLITH_DBS \/ (~mod.stable /\ ~flags.FORCE_SILOED_TESTS)

\* Nothing was expanded: the decorated object is returned, no object was
\* created, no name was set on the module, and the object is neither
\* parametrized nor wrapped in a context.
NotExpandedStep ==
    /\ applied'.value = applied'.target
    /\ Created = {}
    /\ module' = module
    /\ objs'[applied'.target].wrap = objs[applied'.target].wrap
    /\ objs'[applied'.target].params = objs[applied'.target].params

\* The call returned a new object that enters a context around the calls: a
\* generated class, or a function parametrized over its silo modes.
ExpandedStep ==
    /\ applied'.status = "returned"
    /\ applied'.value \in Created
    /\ objs'[applied'.value].wrap.on
    /\ module'[objs[applied'.target].name] = applied'.value
    /\ objs[applied'.target].kind = "function" =>
           objs'[applied'.value].params = applied'.mod.silo_modes \cup {"MONOLITH"}

\* C2 as stated: in the collapsing case apply returns the decorated object
\* itself with nothing expanded, and in every other case it expands.
C2_Original ==
    [][IsDecoration =>
          /\ ClaimCollapses(applied'.mod) =>
                 (applied'.status = "returned" /\ NotExpandedStep)
          /\ ~ClaimCollapses(applied'.mod) => ExpandedStep]_vars

\* C2 (amended): whenever apply returns (the object is a function or a
\* TestCase class and the ancestor validation passed), it returns the
\* decorated object itself with nothing expanded exactly in the collapsing
\* case, and expands in every other case; when apply raises, nothing is
\* created, registered or marked.
C2_CollapseOrExpand ==
    [][IsDecoration =>
          /\ (applied'.status = "returned" /\ ClaimCollapses(applied'.mod)) =>
                 NotExpandedStep
          /\ (applied'.status = "returned" /\ ~ClaimCollapses(applied'.mod)) =>
                 ExpandedStep
          /\ applied'.status = "raised" => (objs' = objs /\ module' = module)]_vars

\* C2 witness: a control-only class decorated with stable=False under the
\* default flags came back as itself.
C2_Witness ==
    /\ applied.status = "returned"
    /\ ~flags.SENTRY_USE_MONOLITH_DBS /\ ~flags.FORCE_SILOED_TESTS
    /\ applied.mod.silo_modes = {"CONTROL"} /\ ~applied.mod.stable
    /\ objs[applied.target].kind = "class"
    /\ applied.value = applied.target
    /\ \A n \in DOMAIN module : objs[module[n]].name # "MyTest__InControlMode"

\* The generated classes of a step other than the returned one.
Siblings == Created \ {applied'.value}

\* A generated class for silo_mode over the decorated class, under that name.
IsGeneratedFor(id, silo_mode, name) ==
    /\ objs'[id].kind = "class"
    /\ objs'[id].bases = <<applied'.target>>
    /\ objs'[id].name = name
    /\ objs'[id].wrap.on /\ objs'[id].wrap.mode = silo_mode

ClassExpansion ==
    /\ IsDecoration
    /\ applied'.status = "returned"
    /\ applied'.value \in Created
    /\ objs[applied'.target].kind = "class"

ClaimSuffix(silo_mode) ==
    IF silo_mode = "MONOLITH" THEN "__InMonolithMode"
    ELSE IF silo_mode = "CONTROL" THEN "__InControlMode" ELSE "__InRegionMode"

\* The plane the body of a call on class id runs under: the innermost context.
BodyPlane(os, id) ==
    LET chain == WrapChain(os, id) IN chain[Len(chain)].mode

\* C3 as stated: with exactly one required plane P the unrenamed class runs
\* under P and the only sibling, if any, is the monolith one; otherwise the
\* unrenamed class runs under MONOLITH and the siblings are the required ones.
C3_Original ==
    [][ClassExpansion =>
          LET S == applied'.mod.silo_modes
              name == objs[applied'.target].name
          IN  IF Cardinality(S) = 1
              THEN /\ \A P \in S : IsGeneratedFor(applied'.value, P, name)
                   /\ \A s \in Siblings :
                          IsGeneratedFor(s, "MONOLITH", name \o ClaimSuffix("MONOLITH"))
              ELSE /\ IsGeneratedFor(applied'.value, "MONOLITH", name)
                   /\ {objs'[s].wrap.mode : s \in Siblings} = S]_vars

\* C3 (amended): under the default switches, whatever the number of required
\* planes, the unrenamed class runs under MONOLITH and the siblings are
\* exactly one class per required plane, each registered in the module under
\* the name suffixed for its plane.
C3_PrimaryIsMonolith ==
    [][ClassExpansion =>
          LET S == applied'.mod.silo_modes
              name == objs[applied'.target].name
          IN  /\ IsGeneratedFor(applied'.value, "MONOLITH", name)
              /\ BodyPlane(objs', applied'.value) = "MONOLITH"
              /\ Cardinality(Siblings) = Cardinality(S)
              /\ {objs'[s].wrap.mode : s \in Siblings} = S
              /\ \A s \in Siblings :
                     /\ IsGeneratedFor(s, objs'[s].wrap.mode,
                                       name \o ClaimSuffix(objs'[s].wrap.mode))
                     /\ objs'[s].name \in DOMAIN module'
                     /\ module'[objs'[s].name] = s]_vars

\* C3 witness: a class with the single required plane CONTROL was expanded:
\* the returned class runs under MONOLITH, the sibling is the control one.
C3_Witness ==
    /\ applied.status = "returned" /\ applied.expanded
    /\ objs[applied.target].kind = "class"
    /\ applied.mod.silo_modes = {"CONTROL"}
    /\ objs[applied.value].wrap.mode = "MONOLITH"
    /\ "MyTest__InControlMode" \in DOMAIN module
    /\ objs[module["MyTest__InControlMode"]].wrap.mode = "CONTROL"

\* C5: decorating a class that is itself, or has a direct or transitive base
\* class that is, already decorated by one of the four decorators raises
\* AncestorAlreadySiloDecoratedException, and nothing is registered or marked.
C5_DecoratedAncestorRaises ==
    [][(IsDecoration /\ objs[applied'.target].kind = "class"
          /\ \E a \in Ancestors(objs, applied'.target) : objs[a].marker.set) =>
          /\ applied'.status = "raised"
          /\ applied'.error = "AncestorAlreadySiloDecoratedException"
          /\ objs' = objs
          /\ module' = module]_vars

(***************************************************************************)
(* Fence scanner                                                           *)
(***************************************************************************)

\* Longest statement log drawn.
MaxLen == 6

\* context_queries = 5
context_queries == 5

\* A statement record: its sql is None (isnull), or a text of which the model
\* keeps what the scanner reads: which fence marker it is (match_fence_query)
\* and whether one of the protected patterns matches it.
NullSql == [isnull |-> TRUE, fence |-> "none", protected |-> FALSE]

Statements ==
    {NullSql} \cup [isnull : {FALSE}, fence : {"none", "start", "end"}, protected : BOOLEAN]

Logs == UNION {[1..n -> Statements] : n \in 0..MaxLen}

\* match_fence_query(sql): None ("none") or the match's operation group.
match_fence_query(q) == q.fence

\* any(protected.match(sql) for protected in get_protected_operations())
ProtectedMatch(q) == q.protected

\* A plausible slip: the end marker decrements without the clamp at 0.
ApplyFenceNoClamp(depth, op) ==
    CASE op = "start" -> depth + 1
      [] op = "end" -> depth - 1
      [] OTHER -> depth

\* fence_depth after a statement whose fence operation is op.
ApplyFence(depth, op) ==
    CASE op = "start" -> depth + 1
      [] op = "end" -> Max(depth - 1, 0)
      [] OTHER -> depth

\* A plausible slip: an end marker records its index as well.
RecordStartAnyMarker(sfi, op, idx) == IF op # "none" THEN idx ELSE sfi

\* start_fence_index after that statement at loop index idx: every begin
\* marker records its index (line 395 is not guarded by the depth).
RecordStart(sfi, op, idx) == IF op = "start" THEN idx ELSE sfi

NoWindow == [status |-> "scanning", error |-> "none", start |-> 0, end_ |-> 0, at |-> 0]

InitScan ==
    /\ MuxIdle
    /\ RunIdle
    /\ ValIdle
    /\ queries \in Logs
    /\ index = 0
    /\ fence_depth = 0
    /\ start_fence_index = 0
    /\ scan = NoWindow

\* if sql is None: continue
ScanNull ==
    /\ scan.status = "scanning"
    /\ index < Len(queries)
    /\ queries[index + 1].isnull
    /\ index' = index + 1
    /\ UNCHANGED <<queries, fence_depth, start_fence_index, scan>>

\* query_slice = queries[start:end], as 1-based positions of the log.
QuerySlice(start, end_) == (start + 1)..end_

\* "\n".join(msg) over the sql of the slice: str.join raises TypeError on an
\* item that is None, so the AssertionError is built and raised only when no
\* record of the slice has a null sql.
RaisedError(log, start, end_) ==
    IF \E k \in QuerySlice(start, end_) : log[k].isnull
    THEN "TypeError" ELSE "AssertionError"

\* One iteration of the loop on a statement with sql: the fence marker is
\* applied first, then the protected patterns are tried at the new depth.
ScanQuery ==
    /\ scan.status = "scanning"
    /\ index < Len(queries)
    /\ ~queries[index + 1].isnull
    /\ LET q == queries[index + 1]
           op == match_fence_query(q)
           depth == ApplyFence(fence_depth, op)
           sfi == RecordStart(start_fence_index, op, index)
       IN  /\ fence_depth' = depth
           /\ start_fence_index' = sfi
           /\ IF ProtectedMatch(q) /\ depth = 0
              THEN /\ scan' = [status |-> "raised",
                               error |-> RaisedError(queries,
                                             Max(0, sfi - context_queries),
                                             Min(index + context_queries, Len(queries))),
                               start |-> Max(0, sfi - context_queries),
                               end_ |-> Min(index + context_queries, Len(queries)),
                               at |-> index]
                   /\ index' = index
              ELSE /\ scan' = scan
                   /\ index' = index + 1
    /\ UNCHANGED queries

\* The loop is exhausted: the function returns None.
ScanReturn ==
    /\ scan.status = "scanning"
    /\ index = Len(queries)
    /\ scan' = [scan EXCEPT !.status = "returned"]
    /\ UNCHANGED <<queries, index, fence_depth, start_fence_index>>

NextScan ==
    \/ ScanNull /\ UNCHANGED <<muxVars, runVars, valVars>>
    \/ ScanQuery /\ UNCHANGED <<muxVars, runVars, valVars>>
    \/ ScanReturn /\ UNCHANGED <<muxVars, runVars, valVars>>

SpecScan == InitScan /\ [][NextScan]_vars

\* validate_protected_queries(log) as a whole: the loop from loop index idx
\* with the locals fence_depth = depth and start_fence_index = sfi, to the
\* outcome of the call.
RECURSIVE ScanFrom(_, _, _, _)
ScanFrom(log, idx, depth, sfi) ==
    IF idx = Len(log) THEN [status |-> "returned", error |-> "none", at |-> 0]
    ELSE IF log[idx + 1].isnull THEN ScanFrom(log, idx + 1, depth, sfi)
    ELSE LET q == log[idx + 1]
             op == match_fence_query(q)
             d == ApplyFence(depth, op)
             s == RecordStart(sfi, op, idx)
         IN  IF ProtectedMatch(q) /\ d = 0
             THEN [status |-> "raised",
                   error |-> RaisedError(log, Max(0, s - context_queries),
                                         Min(idx + context_queries, Len(log))),
                   at |-> idx]
             ELSE ScanFrom(log, idx + 1, d, s)

validate_protected_queries(log) == ScanFrom(log, 0, 0, 0)

(***************************************************************************)
(* Claims about the fence scanner                                          *)
(***************************************************************************)

BeginFence == [isnull |-> FALSE, fence |-> "start", protected |-> FALSE]
EndFence == [isnull |-> FALSE, fence |-> "end", protected |-> FALSE]
DeleteUser == [isnull |-> FALSE, fence |-> "none", protected |-> TRUE]

\* The fence depth the claims speak of, after the first i statements of log.
RECURSIVE ClaimDepth(_, _)
ClaimDepth(log, i) ==
    IF i = 0 THEN 0
    ELSE LET d == ClaimDepth(log, i - 1)
             q == log[i]
         IN  IF q.isnull THEN d
             ELSE IF q.fence = "start" THEN d + 1
             ELSE IF q.fence = "end" THEN (IF d > 0 THEN d - 1 ELSE 0)
             ELSE d

\* The statements of log that match a protected pattern at depth 0.
UnfencedAt(log) ==
    {i \in 1..Len(log) : ~log[i].isnull /\ log[i].protected /\ ClaimDepth(log, i) = 0}

ScanDone == scan.status \in {"returned", "raised"}

\* C1: the scanner raises the unfenced-protected-operation error (the
\* AssertionError with the query log) if and only if the log holds a
\* statement that matches a protected pattern where the fence depth, after
\* that statement's own marker, is 0 (and it raises on the first such
\* statement); a protected statement inside a fence does not raise, one
\* after the fence closed does.
C1_RaisesIffUnfenced ==
    /\ scan.status = "raised" =>
          /\ scan.error = "AssertionError"
          /\ scan.at + 1 \in UnfencedAt(queries)
          /\ \A i \in UnfencedAt(queries) : scan.at + 1 <= i
    /\ scan.status = "returned" => UnfencedAt(queries) = {}
    /\ (ScanDone /\ queries = <<BeginFence, DeleteUser, EndFence>>) =>
          scan.status = "returned"
    /\ (ScanDone /\ queries = <<DeleteUser>>) => scan.status = "raised"
    /\ (ScanDone /\ queries = <<BeginFence, DeleteUser, EndFence, DeleteUser>>) =>
          (scan.status = "raised" /\ scan.at = 3)

\* The index (0-based) of the most recent begin marker among the statements
\* up to and including statement i (0-based), 0 when there is none.
RECURSIVE ClaimOpenedAt(_, _)
ClaimOpenedAt(log, i) ==
    IF i < 0 THEN 0
    ELSE IF ~log[i + 1].isnull /\ log[i + 1].fence = "start" THEN i
    ELSE ClaimOpenedAt(log, i - 1)

\* C12: when the scanner raises on statement i, the window of the message
\* starts at max(0, openedAt - 5), openedAt the index of the most recent
\* begin marker, and extends through the 5 statements after statement i,
\* clipped to the end of the log: it holds statement i and, when they
\* exist, statements i+1 .. i+5.
C12_WindowFiveAfter ==
    scan.status = "raised" =>
        /\ scan.start = Max(0, ClaimOpenedAt(queries, scan.at) - 5)
        /\ scan.end_ = Min(scan.at + 5 + 1, Len(queries))
        /\ \A k \in scan.at..Min(scan.at + 5, Len(queries) - 1) :
               k + 1 \in QuerySlice(scan.start, scan.end_)

\* A step of the scan that processes a statement, and that statement.
Processes == scan.status = "scanning" /\ (index' = index + 1 \/ scan'.status = "raised")
Processed == queries[index + 1]
IsBegin(q) == ~q.isnull /\ q.fence = "start"
IsEnd(q) == ~q.isnull /\ q.fence = "end"

\* C15: during a scan the fence depth is never negative; a begin marker
\* increases it by exactly 1, an end marker at depth d sets it to
\* max(d - 1, 0), every other statement leaves it unchanged; so after an end
\* marker seen at depth 0 a single begin marker opens a fence of depth 1.
C15_DepthClamped ==
    [][Processes =>
          /\ fence_depth' >= 0
          /\ IsBegin(Processed) => fence_depth' = fence_depth + 1
          /\ IsEnd(Processed) =>
                 fence_depth' = (IF fence_depth - 1 > 0 THEN fence_depth - 1 ELSE 0)
          /\ (~IsBegin(Processed) /\ ~IsEnd(Processed)) => fence_depth' = fence_depth
          /\ (index = 1 /\ IsEnd(queries[1]) /\ IsBegin(Processed)) =>
                 fence_depth' = 1]_vars

\* C15 witness: an end marker at depth 0 and then a begin marker were
\* processed, and the depth is 1.
C15_Witness ==
    /\ Len(queries) >= 2
    /\ queries[1] = EndFence
    /\ queries[2] = BeginFence
    /\ index = 2
    /\ fence_depth = 1

\* C16 as stated: the recorded start index changes only when a begin marker
\* is processed at depth 0; a begin marker at depth > 0, an end marker and
\* every other statement leave it unchanged.
C16_StartOnlyFromDepthZero ==
    [][Processes =>
          /\ (IsBegin(Processed) /\ fence_depth = 0) => start_fence_index' = index
          /\ ~(IsBegin(Processed) /\ fence_depth = 0) =>
                 start_fence_index' = start_fence_index]_vars

\* C16 (amended): every begin marker that is processed, at depth 0 or nested
\* at depth > 0, sets the recorded start index to its own index; an end
\* marker and every other statement leave it unchanged; so the recorded
\* index is always that of the most recent begin marker (0 before any).
C16_StartAtEveryBegin ==
    [][Processes =>
          /\ IsBegin(Processed) => start_fence_index' = index
          /\ ~IsBegin(Processed) => start_fence_index' = start_fence_index
          /\ index' = index + 1 =>
                 start_fence_index' = ClaimOpenedAt(queries, index)]_vars

\* C16 witness: a begin marker nested in an open fence moved the recorded
\* start index, and the end marker after it left it there.
C16_Witness ==
    /\ Len(queries) >= 3
    /\ queries[1] = BeginFence
    /\ queries[2] = BeginFence
    /\ queries[3] = EndFence
    /\ index = 3
    /\ fence_depth = 1
    /\ start_fence_index = 1

\* The log with its null-sql records removed.
WithoutNulls(log) == SelectSeq(log, LAMBDA q : ~q.isnull)

\* The outcome of the scan in progress, once it is over.
ScanOutcome == [status |-> scan.status, error |-> scan.error]

\* The step-by-step scan and the call as a whole agree on every log.
ScanAgreesWithCall ==
    ScanDone =>
        /\ ScanOutcome.status = validate_protected_queries(queries).status
        /\ ScanOutcome.error = validate_protected_queries(queries).error

\* C22: null-sql records are transparent to the scanner: the fence depth seen
\* by the other statements is the depth they see in the log with the null
\* records removed, and the scan returns normally or raises the
\* unfenced-protected-operation error exactly as it does on that log.
C22_NullTransparent ==
    /\ scan.status = "scanning" =>
          fence_depth = ClaimDepth(WithoutNulls(SubSeq(queries, 1, index)),
                                   Len(WithoutNulls(SubSeq(queries, 1, index))))
    /\ ScanDone =>
          /\ ScanOutcome.status = validate_protected_queries(WithoutNulls(queries)).status
          /\ ScanOutcome.error = validate_protected_queries(WithoutNulls(queries)).error

(***************************************************************************)
(* Configuration contexts (test_config, assume_test_silo_mode) and the     *)
(* execution of the collected test units                                   *)
(***************************************************************************)

\* Most decorator calls made while the test modules are imported.
MaxScript == 2

\* Deepest nesting of assume_test_silo_mode blocks in a test body.
MaxNest == 2

\* The value a key has in a set of <<key, value>> overrides, else dflt.
Get(ov, key, dflt) ==
    IF \E p \in ov : p[1] = key THEN (CHOOSE p \in ov : p[1] = key)[2] ELSE dflt

\* override_settings(**ov).enable(): the settings with the overrides applied.
override_settings(st, ov) ==
    [SILO_MODE |-> Get(ov, "SILO_MODE", st.SILO_MODE),
     SENTRY_REGION |-> Get(ov, "SENTRY_REGION", st.SENTRY_REGION),
     SENTRY_MONOLITH_REGION |-> Get(ov, "SENTRY_MONOLITH_REGION", st.SENTRY_MONOLITH_REGION),
     SENTRY_SUBNET_SECRET |-> Get(ov, "SENTRY_SUBNET_SECRET", st.SENTRY_SUBNET_SECRET),
     SENTRY_CONTROL_ADDRESS |-> Get(ov, "SENTRY_CONTROL_ADDRESS", st.SENTRY_CONTROL_ADDRESS),
     regions |-> st.regions]

\* override_regions(regions): the region topology replaced.
override_regions(st, regions) == [st EXCEPT !.regions = regions]

\* A plausible slip: the exit of a context manager resets to the settings of
\* a fresh process instead of putting back what it saved on entry.
RestoreEntryProcessDefaults(st, e) ==
    IF e.kind = "settings" THEN [BaseSettings EXCEPT !.regions = st.regions]
    ELSE [st EXCEPT !.regions = BaseSettings.regions]

\* The exit of one entered context manager: override_settings puts back the
\* settings object it saved on entry, override_regions the topology.
RestoreEntry(st, e) ==
    IF e.kind = "settings" THEN [e.saved EXCEPT !.regions = st.regions]
    ELSE [st EXCEPT !.regions = e.saved.regions]

\* A plausible slip: the entered context managers are exited first-in
\* first-out.
RECURSIVE ExitEntriesFifo(_, _)
ExitEntriesFifo(st, entries) ==
    IF entries = <<>> THEN st
    ELSE ExitEntriesFifo(RestoreEntry(st, Head(entries)), Tail(entries))

\* The exit of a with block (ExitStack.__exit__, or the single
\* override_settings of assume_test_silo_mode): last entered, first exited.
RECURSIVE ExitEntries(_, _)
ExitEntries(st, entries) ==
    IF entries = <<>> THEN st
    ELSE ExitEntries(RestoreEntry(st, entries[Len(entries)]),
                     SubSeq(entries, 1, Len(entries) - 1))

\* SiloMode.get_current_mode()
get_current_mode(st) == st.SILO_MODE

\* test_config(silo_mode) of a modification with these regions, up to its
\* yield: the settings it leaves and the context managers it entered.
test_config(st, regions, silo_mode) ==
    LET monolith_region == regions[1]
        s1 == override_settings(st,
                  {<<"SILO_MODE", silo_mode>>,
                   <<"SENTRY_SUBNET_SECRET", "secret">>,
                   <<"SENTRY_CONTROL_ADDRESS", "http://controlserver/">>,
                   <<"SENTRY_MONOLITH_REGION", monolith_region>>})
        s2 == override_regions(s1, regions)
        s3 == override_settings(s2, {<<"SENTRY_REGION", monolith_region>>})
        e1 == [kind |-> "settings", saved |-> st]
        e2 == [kind |-> "regions", saved |-> s1]
        e3 == [kind |-> "settings", saved |-> s2]
    IN  IF silo_mode = "REGION"
        THEN [settings |-> s3, entries |-> <<e1, e2, e3>>, plane |-> silo_mode]
        ELSE [settings |-> s2, entries |-> <<e1, e2>>, plane |-> silo_mode]

\* A plausible slip: the current mode is not consulted, the desired mode is
\* always forced.
assume_always_swaps(st, desired_silo, can_be_monolith) ==
    LET overrides ==
            {<<"SILO_MODE", desired_silo>>}
            \cup (IF desired_silo = "REGION" /\ st.SENTRY_REGION = ""
                  THEN {<<"SENTRY_REGION", "na">>} ELSE {})
    IN  [settings |-> override_settings(st, overrides),
         entries |-> <<[kind |-> "settings", saved |-> st]>>,
         plane |-> desired_silo]

\* A plausible slip: no region name is supplied when entering REGION.
assume_without_region_default(st, desired_silo, can_be_monolith) ==
    LET desired == IF can_be_monolith /\ st.SILO_MODE = "MONOLITH"
                   THEN "MONOLITH" ELSE desired_silo
    IN  IF desired # st.SILO_MODE
        THEN [settings |-> override_settings(st, {<<"SILO_MODE", desired>>}),
              entries |-> <<[kind |-> "settings", saved |-> st]>>,
              plane |-> desired]
        ELSE [settings |-> st, entries |-> <<>>, plane |-> desired]

\* assume_test_silo_mode(desired_silo, can_be_monolith) up to its yield.
assume_test_silo_mode(st, desired_silo, can_be_monolith) ==
    LET desired == IF can_be_monolith /\ get_current_mode(st) = "MONOLITH"
                   THEN "MONOLITH" ELSE desired_silo
        overrides ==
            (IF desired # get_current_mode(st) THEN {<<"SILO_MODE", desired>>} ELSE {})
            \cup (IF desired = "REGION" /\ st.SENTRY_REGION = ""
                  THEN {<<"SENTRY_REGION", "na">>} ELSE {})
    IN  IF overrides # {}
        THEN [settings |-> override_settings(st, overrides),
              entries |-> <<[kind |-> "settings", saved |-> st]>>,
              plane |-> desired]
        ELSE [settings |-> st, entries |-> <<>>, plane |-> desired]

\* The frame of an established context: what it entered, and for the claims
\* the settings in force just before it and the arguments it was called with.
Frame(cm, entered, before, desired, can) ==
    [cm |-> cm, entries |-> entered.entries, plane |-> entered.plane,
     before |-> before, desired |-> desired, can |-> can]

\* The test modules before the decorators run: TestCase, a test function, a
\* helper class and one TestCase class.
MyTestObj ==
    [kind |-> "class", name |-> "MyTest", bases |-> <<TestCaseId>>,
     marker |-> NoMarker, wrap |-> NoWrap, params |-> {}]

ImportedModule ==
    [objs |-> <<TestCaseObj, TestFunctionObj, HelperObj, MyTestObj>>,
     module |-> [n \in {"TestCase", "test_fn", "Helper", "MyTest"} |->
                    CASE n = "TestCase" -> 1 [] n = "test_fn" -> 2
                      [] n = "Helper" -> 3 [] n = "MyTest" -> 4]]

\* The decorator calls of a test module, in order: each decorates what the
\* name is bound to at that point.
ScriptSteps ==
    [silo_modes : Decorators, stable : BOOLEAN, regions : {<<>>, RegionsOverride},
     name : {"MyTest", "test_fn"}]

Scripts == UNION {[1..n -> ScriptSteps] : n \in 0..MaxScript}

RECURSIVE RunScript(_, _, _)
RunScript(m, fl, script) ==
    IF script = <<>> THEN m
    ELSE LET step == Head(script)
             obj == m.module[step.name]
             mod == Modification(step.silo_modes, step.stable, step.regions)
             out == apply(m.objs, m.module, fl, mod, obj)
         IN  IF m.objs[obj].params # {}
             THEN RunScript(m, fl, Tail(script))
             ELSE RunScript([objs |-> out.objs, module |-> Rebind(m.objs, obj, out)],
                            fl, Tail(script))

\* The state when the test session starts: the modules are imported and
\* their decorators have run.
InitRun ==
    /\ ScanIdle
    /\ ValIdle
    /\ flags \in [SENTRY_USE_MONOLITH_DBS : BOOLEAN, FORCE_SILOED_TESTS : BOOLEAN]
    /\ \E script \in Scripts :
          LET m == RunScript(ImportedModule, flags, script)
          IN  objs = m.objs /\ module = m.module
    /\ applied = NoApplied
    /\ settings = BaseSettings
    /\ stack = <<>>
    /\ run = NoRun

\* The test units the runner collects from the module.
Units ==
    {u \in Bound(module) \ {TestCaseId} :
        \/ objs[u].kind = "function"
        \/ objs[u].kind = "class" /\ IsSubclassOfTestCase(objs, u)}

\* The runner calls _callSetUp of a collected class.
StartClass(u) ==
    /\ run.status = "idle"
    /\ objs[u].kind = "class"
    /\ run' = [status |-> "entering", unit |-> u, method |-> "_callSetUp",
               plane |-> IF objs[u].wrap.on THEN objs[u].wrap.mode ELSE "",
               todo |-> WrapChain(objs, u), raised |-> FALSE]
    /\ UNCHANGED <<settings, stack>>

\* The runner calls a parametrized case of a function with silo_mode, or a
\* function that was not expanded.
StartFunction(u, silo_mode) ==
    /\ run.status = "idle"
    /\ objs[u].kind = "function"
    /\ IF objs[u].params = {} THEN silo_mode = "" ELSE silo_mode \in objs[u].params
    /\ run' = [status |-> "entering", unit |-> u, method |-> "call",
               plane |-> silo_mode,
               todo |-> IF objs[u].params = {} THEN <<>>
                        ELSE <<[objs[u].wrap EXCEPT !.mode = silo_mode]>>,
               raised |-> FALSE]
    /\ UNCHANGED <<settings, stack>>

\* with self.test_config(silo_mode): of the next wrapper.
EnterTestConfig ==
    /\ run.status = "entering"
    /\ run.todo # <<>>
    /\ LET w == Head(run.todo)
           entered == test_config(settings, w.regions, w.mode)
       IN  /\ settings' = entered.settings
           /\ stack' = Append(stack, Frame("test_config", entered, settings, w.mode, FALSE))
    /\ run' = [run EXCEPT !.todo = Tail(run.todo)]

\* The wrapped method (setUp, the test method, the test function) is called.
EnterBody ==
    /\ run.status = "entering"
    /\ run.todo = <<>>
    /\ run' = [run EXCEPT !.status = "body"]
    /\ UNCHANGED <<settings, stack>>

AssumeDepth == Cardinality({i \in DOMAIN stack : stack[i].cm = "assume"})

\* with assume_test_silo_mode(desired_silo, can_be_monolith): in the body.
EnterAssume(desired_silo, can_be_monolith) ==
    /\ run.status = "body"
    /\ AssumeDepth < MaxNest
    /\ LET entered == assume_test_silo_mode(settings, desired_silo, can_be_monolith)
       IN  /\ settings' = entered.settings
           /\ stack' = Append(stack, Frame("assume", entered, settings,
                                           desired_silo, can_be_monolith))
    /\ UNCHANGED run

\* The innermost context exits: its with block ends.
PopContext ==
    /\ stack # <<>>
    /\ settings' = ExitEntries(settings, stack[Len(stack)].entries)
    /\ stack' = SubSeq(stack, 1, Len(stack) - 1)

\* The block under an assume_test_silo_mode ends normally.
ExitAssume ==
    /\ run.status = "body"
    /\ stack # <<>>
    /\ stack[Len(stack)].cm = "assume"
    /\ PopContext
    /\ UNCHANGED run

\* The body returns, or raises: the contexts around it unwind.
EndBody(raised) ==
    /\ run.status = "body"
    /\ run' = [run EXCEPT !.status = "unwinding", !.raised = raised]
    /\ UNCHANGED <<settings, stack>>

Unwind ==
    /\ run.status = "unwinding"
    /\ PopContext
    /\ UNCHANGED run

\* The call is over: after a _callSetUp that returned, the runner calls
\* _callTestMethod; otherwise the execution is done.
EndCall ==
    /\ run.status = "unwinding"
    /\ stack = <<>>
    /\ run' = IF run.method = "_callSetUp" /\ ~run.raised
              THEN [run EXCEPT !.status = "entering", !.method = "_callTestMethod",
                               !.todo = WrapChain(objs, run.unit)]
              ELSE NoRun
    /\ UNCHANGED <<settings, stack>>

NextRun ==
    \/ \E u \in Units : StartClass(u) /\ UNCHANGED <<scanVars, muxVars, valVars>>
    \/ \E u \in Units, silo_mode \in SiloModes \cup {""} :
          StartFunction(u, silo_mode) /\ UNCHANGED <<scanVars, muxVars, valVars>>
    \/ EnterTestConfig /\ UNCHANGED <<scanVars, muxVars, valVars>>
    \/ EnterBody /\ UNCHANGED <<scanVars, muxVars, valVars>>
    \/ \E desired_silo \in SiloModes, can_be_monolith \in BOOLEAN :
          EnterAssume(desired_silo, can_be_monolith) /\ UNCHANGED <<scanVars, muxVars, valVars>>
    \/ ExitAssume /\ UNCHANGED <<scanVars, muxVars, valVars>>
    \/ \E raised \in BOOLEAN : EndBody(raised) /\ UNCHANGED <<scanVars, muxVars, valVars>>
    \/ Unwind /\ UNCHANGED <<scanVars, muxVars, valVars>>
    \/ EndCall /\ UNCHANGED <<scanVars, muxVars, valVars>>

SpecRun == InitRun /\ [][NextRun]_vars

\* The topology the claim expects of a decorator call with this regions
\* argument.
ClaimTopology(regions_arg) ==
    IF regions_arg = <<>> THEN <<"us", "eu", "acme-single-tenant">> ELSE regions_arg

\* The settings inside the context a generated unit establishes for a mode.
ContextOf(os, id, silo_mode) == test_config(BaseSettings, os[id].wrap.regions, silo_mode).settings

\* C13: for a decorator call that expands, with no regions argument (or an
\* empty one) every context the generated units establish has exactly the 3
\* default regions as its topology and the first default region's name as
\* the monolith region; with a non-empty regions argument the topology is
\* that argument and the monolith region is the name of its first element.
C13_RegionTopology ==
    [][(IsDecoration /\ applied'.status = "returned" /\ applied'.expanded) =>
          \A g \in Created : \A silo_mode \in SiloModes :
              /\ objs'[g].wrap.on
              /\ ContextOf(objs', g, silo_mode).regions = ClaimTopology(applied'.regions_arg)
              /\ ContextOf(objs', g, silo_mode).SENTRY_MONOLITH_REGION =
                     ClaimTopology(applied'.regions_arg)[1]
              /\ applied'.regions_arg = <<>> =>
                     /\ Len(ContextOf(objs', g, silo_mode).regions) = 3
                     /\ ContextOf(objs', g, silo_mode).SENTRY_MONOLITH_REGION = "us"]_vars

\* C13 witness: a class was expanded by a decorator call with an explicit
\* regions argument, and its control sibling carries that topology.
C13_Witness ==
    /\ applied.status = "returned" /\ applied.expanded
    /\ applied.regions_arg = <<"de", "us">>
    /\ objs[applied.target].kind = "class"
    /\ "MyTest__InControlMode" \in DOMAIN module
    /\ ContextOf(objs, module["MyTest__InControlMode"], "CONTROL").regions = <<"de", "us">>
    /\ ContextOf(objs, module["MyTest__InControlMode"], "CONTROL").SENTRY_MONOLITH_REGION = "de"

\* C14: a decorator call on an object that is neither a function nor a
\* TestCase class raises the invalid-decoration-target error (ValueError),
\* and nothing has changed: no object carries a new marker, no unit was
\* created and no name was registered in the module.
C14_InvalidTargetRaises ==
    [][(IsDecoration
          /\ ~(objs[applied'.target].kind = "function"
               \/ (objs[applied'.target].kind = "class"
                   /\ TestCaseId \in Ancestors(objs, applied'.target)))) =>
          /\ applied'.status = "raised"
          /\ applied'.error = "ValueError"
          /\ objs' = objs
          /\ module' = module]_vars

\* C14 witness: a decorator call on the helper class, which is no TestCase,
\* raised ValueError and the helper carries no marker.
C14_Witness ==
    /\ applied.status = "raised"
    /\ applied.error = "ValueError"
    /\ objs[applied.target].name = "Helper"
    /\ ~objs[applied.target].marker.set
    /\ Len(objs) = 3

(***************************************************************************)
(* Claims about the executions and the configuration contexts              *)
(***************************************************************************)

\* The classes generated over class c by an expansion of c.
GeneratedOver(c) ==
    {g \in DOMAIN objs : objs[g].kind = "class" /\ objs[g].wrap.on /\ objs[g].bases = <<c>>}

\* C4: under the default switches an expanded unit with required planes S has
\* exactly one execution per plane of S and MONOLITH, none twice, and the
\* body of each execution runs with the active plane set to its own plane.
C4_OneExecutionPerPlane ==
    /\ \A c \in DOMAIN objs :
          (objs[c].kind = "class" /\ objs[c].marker.set /\ GeneratedOver(c) # {}) =>
              /\ {objs[g].wrap.mode : g \in GeneratedOver(c)} =
                     objs[c].marker.modes \cup {"MONOLITH"}
              /\ Cardinality(GeneratedOver(c)) = Cardinality(objs[c].marker.modes) + 1
    /\ \A f \in DOMAIN objs :
          (objs[f].kind = "function" /\ objs[f].wrap.on) => "MONOLITH" \in objs[f].params
    /\ (run.status = "body" /\ run.plane # "" /\ AssumeDepth = 0) =>
          settings.SILO_MODE = run.plane

\* A step in which the innermost context exits.
IsContextExit == Len(stack') = Len(stack) - 1

\* C6: when a context of a properly nested sequence exits, by return or by a
\* raised error, the process-wide settings (active plane, region topology,
\* region name, monolith region, subnet secret, control address) are those
\* in force just before the context was established.
C6_ExitRestores ==
    [][IsContextExit => settings' = stack[Len(stack)].before]_vars

\* C6 witness: a REGION execution whose body raised has unwound every
\* context it had established, back to the base settings.
C6_Witness ==
    /\ run.status = "unwinding" /\ run.raised
    /\ run.plane = "REGION"
    /\ stack = <<>>
    /\ settings = BaseSettings

TopFrame == stack[Len(stack)]

GeneratedClassCall ==
    /\ run.status # "idle"
    /\ objs[run.unit].kind = "class"
    /\ objs[run.unit].wrap.on

\* C19: for a class generated for plane P, while its setup entry point or
\* its test-method entry point is executing (outside any
\* assume_test_silo_mode block) the active plane is P, and when either call
\* has returned or raised the settings are again those in force before the
\* call and no context is held over to the next call.
C19_PlaneDuringCalls ==
    /\ (GeneratedClassCall /\ run.status = "body" /\ AssumeDepth = 0) =>
          settings.SILO_MODE = objs[run.unit].wrap.mode
    /\ (GeneratedClassCall /\ run.status = "unwinding" /\ stack = <<>>) =>
          settings = BaseSettings
    /\ (GeneratedClassCall /\ run.status = "entering"
          /\ run.method = "_callTestMethod" /\ stack = <<>>) =>
          settings = BaseSettings

\* The settings in force directly inside the i-th established context.
InsideSettings(i) == IF i = Len(stack) THEN settings ELSE stack[i + 1].before

\* C20: whenever the body of assume_test_silo_mode runs with effective plane
\* REGION the region name is set: "na" if it was unset on entry, its prior
\* value if it was set.
C20_RegionNameSet ==
    \A i \in DOMAIN stack :
        (stack[i].cm = "assume" /\ stack[i].plane = "REGION") =>
            /\ InsideSettings(i).SILO_MODE = "REGION"
            /\ InsideSettings(i).SENTRY_REGION # ""
            /\ stack[i].before.SENTRY_REGION = "" =>
                   InsideSettings(i).SENTRY_REGION = "na"
            /\ stack[i].before.SENTRY_REGION # "" =>
                   InsideSettings(i).SENTRY_REGION = stack[i].before.SENTRY_REGION

\* C20 witness: inside a CONTROL execution, assume_test_silo_mode(REGION)
\* found no region name and the body runs with "na".
C20_Witness ==
    /\ run.status = "body"
    /\ stack # <<>>
    /\ TopFrame.cm = "assume"
    /\ TopFrame.plane = "REGION"
    /\ TopFrame.before.SILO_MODE = "CONTROL"
    /\ TopFrame.before.SENTRY_REGION = ""
    /\ settings.SENTRY_REGION = "na"
    /\ settings.SILO_MODE = "REGION"

(***************************************************************************)
(* Model validators: iter_models, validate_models_have_silos and           *)
(* validate_no_cross_silo_foreign_keys                                     *)
(***************************************************************************)

\* Most fields a model declares.
MaxFields == 1

\* apps.all_models, in registry order. The two named models are those of
\* the relation validate_hcfk_has_global_id lets through.
ModelOrder == <<"NotificationSetting", "Actor">>
Models == Range(ModelOrder)

\* The silo limits a model may declare: ModelSiloLimit(*modes).
Placements == {{"MONOLITH"}, {"CONTROL"}, {"REGION"}, {"CONTROL", "REGION"}}

\* model.__module__ values, one of each kind iter_models tells apart.
ModuleNames ==
    {"sentry.models", "django.contrib.auth.models", "tests.sentry.models",
     "fixtures.models"}

\* model.__module__.startswith("django.") or "tests." in model.__module__
\* or "fixtures." in model.__module__
SkippedModule(module_name) ==
    \/ module_name = "django.contrib.auth.models"
    \/ module_name = "tests.sentry.models"
    \/ module_name = "fixtures.models"

\* The fields of a model the validators tell apart: a RelatedField to a model
\* or to "self", a HybridCloudForeignKey to a model, any other field.
FieldValues ==
    [kind : {"RelatedField"}, target : Models \cup {"self"}]
    \cup [kind : {"HybridCloudForeignKey"}, target : Models]

FieldLists == UNION {[1..n -> FieldValues] : n \in 0..MaxFields}

\* iter_models(app_name): the models of the app (all apps when app_name is
\* None) whose module is not skipped, in registry order.
iter_models(mt, app_name) ==
    SelectSeq(ModelOrder,
              LAMBDA m : /\ (mt[m].app = app_name \/ app_name = "None")
                         /\ ~SkippedModule(mt[m].module))

\* _model_silo_limit(t): is there a ModelSiloLimit on t._meta?
HasSiloLimit(mt, t) == mt[t].declared

\* A plausible slip: a model passes when it has any silo limit at all.
SilosOutcomeAnyLimit(mt, exemptions, model) ==
    IF model \in exemptions THEN "ok"
    ELSE IF ~HasSiloLimit(mt, model) THEN "MissingPlacementError"
    ELSE "ok"

\* The body of the loop of validate_models_have_silos for one model.
SilosOutcome(mt, exemptions, model) ==
    IF model \in exemptions THEN "ok"
    ELSE IF ~HasSiloLimit(mt, model) THEN "MissingPlacementError"
    ELSE IF "REGION" \notin mt[model].modes /\ "CONTROL" \notin mt[model].modes
    THEN "UnplacedEntityError"
    ELSE "ok"

\* The loop shared by _is_relation_cross_silo and
\* validate_relation_does_not_cross_silo_foreign_keys: "ok" when it finds no
\* mode of model that related lacks, "cross" when it finds one, "missing"
\* when _model_silo_limit raises on the way.
RelationCheck(mt, model, related) ==
    IF model = "self" \/ related = "self" THEN "ok"
    ELSE IF ~HasSiloLimit(mt, model) THEN "missing"
    ELSE IF mt[model].modes = {} THEN "ok"
    ELSE IF ~HasSiloLimit(mt, related) THEN "missing"
    ELSE IF \E mode \in mt[model].modes : mode \notin mt[related].modes THEN "cross"
    ELSE "ok"

ErrorOf(check) ==
    CASE check = "cross" -> "CrossPlaneRelationError"
      [] check = "missing" -> "MissingPlacementError"
      [] OTHER -> "ok"

\* A plausible slip: only the declared direction is validated.
ValidateRelationOneWay(mt, model, related) ==
    ErrorOf(RelationCheck(mt, model, related))

\* Lines 541-542: the relation is validated in both orderings, the declared
\* one first.
ValidateRelation(mt, model, related) ==
    IF RelationCheck(mt, model, related) # "ok"
    THEN ErrorOf(RelationCheck(mt, model, related))
    ELSE ErrorOf(RelationCheck(mt, related, model))

\* A plausible slip: every target without a global id is refused.
validate_hcfk_any_placement(mt, model, related_model) ==
    IF mt[related_model].snowflake THEN "ok"
    ELSE IF related_model = "Actor" /\ model = "NotificationSetting" THEN "ok"
    ELSE "GlobalIdentityError"

\* validate_hcfk_has_global_id(model, related_model)
validate_hcfk_has_global_id(mt, model, related_model) ==
    IF mt[related_model].snowflake THEN "ok"
    ELSE IF related_model = "Actor" /\ model = "NotificationSetting" THEN "ok"
    ELSE IF ~HasSiloLimit(mt, related_model) THEN "MissingPlacementError"
    ELSE IF "REGION" \in mt[related_model].modes THEN "GlobalIdentityError"
    ELSE "ok"

\* A plausible slip: the exemptions are not consulted for ordinary
\* references.
FieldOutcomeNoExemptions(mt, exemptions, model, field) ==
    IF field.kind = "RelatedField"
    THEN [outcome |-> ValidateRelation(mt, model, field.target), seen |-> {}]
    ELSE IF field.kind = "HybridCloudForeignKey"
    THEN [outcome |-> validate_hcfk_has_global_id(mt, model, field.target), seen |-> {}]
    ELSE [outcome |-> "ok", seen |-> {}]

\* A plausible slip: an exempted pair is recorded as seen and skipped whether
\* or not the relation crosses.
FieldOutcomeRecordingStale(mt, exemptions, model, field) ==
    IF field.kind = "RelatedField" /\ <<model, field.target>> \in exemptions
    THEN [outcome |-> "ok", seen |-> {<<model, field.target>>}]
    ELSE IF field.kind = "RelatedField" /\ <<field.target, model>> \in exemptions
    THEN [outcome |-> "ok", seen |-> {<<field.target, model>>}]
    ELSE FieldOutcomeNoExemptions(mt, exemptions, model, field)

\* The body of the loop of validate_model_no_cross_silo_foreign_keys for one
\* field: the outcome ("ok", or the error raised) and the pair added to seen.
FieldOutcome(mt, exemptions, model, field) ==
    LET related == field.target
        fwd == IF <<model, related>> \in exemptions
               THEN RelationCheck(mt, model, related) ELSE "ok"
        bwd == IF <<related, model>> \in exemptions
               THEN RelationCheck(mt, related, model) ELSE "ok"
    IN  IF field.kind = "RelatedField"
        THEN IF fwd = "missing"
             THEN [outcome |-> "MissingPlacementError", seen |-> {}]
             ELSE IF fwd = "cross"
             THEN [outcome |-> "ok", seen |-> {<<model, related>>}]
             ELSE IF bwd = "missing"
             THEN [outcome |-> "MissingPlacementError", seen |-> {}]
             ELSE IF bwd = "cross"
             THEN [outcome |-> "ok", seen |-> {<<related, model>>}]
             ELSE [outcome |-> ValidateRelation(mt, model, related), seen |-> {}]
        ELSE IF field.kind = "HybridCloudForeignKey"
        THEN [outcome |-> validate_hcfk_has_global_id(mt, model, related), seen |-> {}]
        ELSE [outcome |-> "ok", seen |-> {}]

ModelRecords(apps_, modules_, fields_) ==
    [app : apps_, module : modules_, declared : {TRUE}, modes : Placements,
     snowflake : BOOLEAN, fields : fields_]
    \cup [app : apps_, module : modules_, declared : {FALSE}, modes : {{}},
          snowflake : BOOLEAN, fields : fields_]

StartVal(fn) == [NoVal EXCEPT !.fn = fn, !.status = "walking", !.mi = 1, !.pass = 1]

\* validate_models_have_silos(exemptions, app_name) is called on some
\* metadata.
InitSilos ==
    /\ ScanIdle /\ MuxIdle /\ RunIdle
    /\ meta \in [Models -> {r \in ModelRecords({"sentry", "getsentry"}, ModuleNames, {<<>>}) :
                               ~r.snowflake}]
    /\ exempt \in [models : SUBSET Models, pairs : {{}}, app_name : {"None", "sentry"}]
    /\ val = StartVal("validate_models_have_silos")

\* One iteration of the loop of validate_models_have_silos.
SilosModel ==
    /\ val.fn = "validate_models_have_silos"
    /\ val.status = "walking"
    /\ val.mi <= Len(iter_models(meta, exempt.app_name))
    /\ LET model == iter_models(meta, exempt.app_name)[val.mi]
           outcome == SilosOutcome(meta, exempt.models, model)
       IN  val' = IF outcome = "ok"
                  THEN [val EXCEPT !.mi = val.mi + 1,
                                   !.last = [model |-> model, fi |-> 0, outcome |-> "ok"]]
                  ELSE [val EXCEPT !.status = "raised", !.error = outcome,
                                   !.last = [model |-> model, fi |-> 0,
                                             outcome |-> outcome]]
    /\ UNCHANGED <<meta, exempt>>

\* The models are exhausted: the validator returns.
ValReturn ==
    /\ val.status = "walking"
    /\ val.mi > Len(iter_models(meta, exempt.app_name))
    /\ val' = [val EXCEPT !.status = "returned"]
    /\ UNCHANGED <<meta, exempt>>

\* The validator is called again over the same metadata.
SilosAgain ==
    /\ val.fn = "validate_models_have_silos"
    /\ val.status \in {"returned", "raised"}
    /\ val.pass = 1
    /\ val' = [StartVal(val.fn) EXCEPT
                  !.pass = 2,
                  !.first = IF val.status = "raised" THEN val.error ELSE "returned"]
    /\ UNCHANGED <<meta, exempt>>

NextSilos ==
    \/ SilosModel /\ UNCHANGED <<scanVars, muxVars, runVars>>
    \/ ValReturn /\ UNCHANGED <<scanVars, muxVars, runVars>>
    \/ SilosAgain /\ UNCHANGED <<scanVars, muxVars, runVars>>

SpecSilos == InitSilos /\ [][NextSilos]_vars

\* validate_no_cross_silo_foreign_keys(exemptions, app_name) is called on
\* some metadata.
InitForeignKeys ==
    /\ ScanIdle /\ MuxIdle /\ RunIdle
    /\ meta \in [Models -> ModelRecords({"sentry"},
                                        {"sentry.models", "tests.sentry.models"},
                                        FieldLists)]
    /\ exempt \in [models : {{}},
                   pairs : SUBSET {<<"NotificationSetting", "Actor">>,
                                   <<"Actor", "NotificationSetting">>},
                   app_name : {"None"}]
    /\ val = StartVal("validate_no_cross_silo_foreign_keys")

\* One iteration of the loop over model._meta.fields in
\* validate_model_no_cross_silo_foreign_keys.
ForeignKeysField ==
    /\ val.fn = "validate_no_cross_silo_foreign_keys"
    /\ val.status = "walking"
    /\ val.mi <= Len(iter_models(meta, exempt.app_name))
    /\ LET model == iter_models(meta, exempt.app_name)[val.mi]
       IN  /\ val.fi < Len(meta[model].fields)
           /\ LET out == FieldOutcome(meta, exempt.pairs, model,
                                      meta[model].fields[val.fi + 1])
                  last == [model |-> model, fi |-> val.fi + 1, outcome |-> out.outcome]
              IN  val' = IF out.outcome = "ok"
                         THEN [val EXCEPT !.fi = val.fi + 1,
                                          !.seen = val.seen \cup out.seen,
                                          !.last = last]
                         ELSE [val EXCEPT !.status = "raised", !.error = out.outcome,
                                          !.last = last]
    /\ UNCHANGED <<meta, exempt>>

\* The fields of the model are exhausted: seen |= ..., the next model.
ForeignKeysNextModel ==
    /\ val.fn = "validate_no_cross_silo_foreign_keys"
    /\ val.status = "walking"
    /\ val.mi <= Len(iter_models(meta, exempt.app_name))
    /\ val.fi = Len(meta[iter_models(meta, exempt.app_name)[val.mi]].fields)
    /\ val' = [val EXCEPT !.mi = val.mi + 1, !.fi = 0]
    /\ UNCHANGED <<meta, exempt>>

NextForeignKeys ==
    \/ ForeignKeysField /\ UNCHANGED <<scanVars, muxVars, runVars>>
    \/ ForeignKeysNextModel /\ UNCHANGED <<scanVars, muxVars, runVars>>
    \/ ValReturn /\ UNCHANGED <<scanVars, muxVars, runVars>>

SpecForeignKeys == InitForeignKeys /\ [][NextForeignKeys]_vars

\* Most child relations a deletion task reports for a model.
MaxChildren == 2

\* deletion_task.get_child_relations(model_class()): the models named by
\* relation.params["model"], in order.
ChildLists == UNION {[1..n -> Models] : n \in 0..MaxChildren}

\* Model metadata together with the child relations of the model's deletion
\* task.
DeletionRecords ==
    [app : {"sentry"}, module : {"sentry.models", "tests.sentry.models"},
     declared : {TRUE}, modes : Placements, snowflake : {FALSE}, fields : {<<>>},
     children : ChildLists]
    \cup [app : {"sentry"}, module : {"sentry.models", "tests.sentry.models"},
          declared : {FALSE}, modes : {{}}, snowflake : {FALSE}, fields : {<<>>},
          children : ChildLists]

\* A plausible slip: the cascade is validated in both orderings, as the
\* foreign keys are.
DeletionOutcomeBothWays(mt, exemptions, model_class, to_model) ==
    IF <<model_class, to_model>> \in exemptions \/ <<to_model, model_class>> \in exemptions
    THEN "ok"
    ELSE IF ~HasSiloLimit(mt, to_model) THEN "MissingPlacementError"
    ELSE IF mt[model_class].modes # mt[to_model].modes THEN "CascadePlacementError"
    ELSE "ok"

\* The body of the loop over the child relations in
\* validate_no_cross_silo_deletions, for a model_class that has a silo limit.
DeletionOutcome(mt, exemptions, model_class, to_model) ==
    IF <<model_class, to_model>> \in exemptions \/ <<to_model, model_class>> \in exemptions
    THEN "ok"
    ELSE IF mt[model_class].modes = {} THEN "ok"
    ELSE IF ~HasSiloLimit(mt, to_model) THEN "MissingPlacementError"
    ELSE IF \E mode \in mt[model_class].modes : mode \notin mt[to_model].modes
    THEN "CascadePlacementError"
    ELSE "ok"

\* validate_no_cross_silo_deletions(exemptions, app_name) is called on some
\* metadata.
InitDeletions ==
    /\ ScanIdle /\ MuxIdle /\ RunIdle
    /\ meta \in [Models -> DeletionRecords]
    /\ exempt \in [models : {{}},
                   pairs : SUBSET {<<"NotificationSetting", "Actor">>,
                                   <<"Actor", "NotificationSetting">>},
                   app_name : {"None"}]
    /\ val = StartVal("validate_no_cross_silo_deletions")

\* One iteration of the loop over the child relations of a model that has a
\* silo limit.
DeletionsRelation ==
    /\ val.fn = "validate_no_cross_silo_deletions"
    /\ val.status = "walking"
    /\ val.mi <= Len(iter_models(meta, exempt.app_name))
    /\ LET model_class == iter_models(meta, exempt.app_name)[val.mi]
       IN  /\ meta[model_class].declared
           /\ val.fi < Len(meta[model_class].children)
           /\ LET outcome == DeletionOutcome(meta, exempt.pairs, model_class,
                                             meta[model_class].children[val.fi + 1])
                  last == [model |-> model_class, fi |-> val.fi + 1, outcome |-> outcome]
              IN  val' = IF outcome = "ok"
                         THEN [val EXCEPT !.fi = val.fi + 1, !.last = last]
                         ELSE [val EXCEPT !.status = "raised", !.error = outcome,
                                          !.last = last]
    /\ UNCHANGED <<meta, exempt>>

\* The model has no silo_limit attribute (continue), or its child relations
\* are exhausted: the next model.
DeletionsNextModel ==
    /\ val.fn = "validate_no_cross_silo_deletions"
    /\ val.status = "walking"
    /\ val.mi <= Len(iter_models(meta, exempt.app_name))
    /\ LET model_class == iter_models(meta, exempt.app_name)[val.mi]
       IN  \/ ~meta[model_class].declared
           \/ val.fi = Len(meta[model_class].children)
    /\ val' = [val EXCEPT !.mi = val.mi + 1, !.fi = 0]
    /\ UNCHANGED <<meta, exempt>>

NextDeletions ==
    \/ DeletionsRelation /\ UNCHANGED <<scanVars, muxVars, runVars>>
    \/ DeletionsNextModel /\ UNCHANGED <<scanVars, muxVars, runVars>>
    \/ ValReturn /\ UNCHANGED <<scanVars, muxVars, runVars>>

SpecDeletions == InitDeletions /\ [][NextDeletions]_vars

(***************************************************************************)
(* Properties of the model validators                                      *)
(***************************************************************************)

\* The field the foreign-key validator processed last, its model and target.
LastModel == val.last.model
LastField == meta[val.last.model].fields[val.last.fi]
FieldProcessed ==
    /\ val.fn = "validate_no_cross_silo_foreign_keys"
    /\ val.last.fi > 0

PlacementSubset(a, b) == meta[a].modes \subseteq meta[b].modes

NeitherOrderingExempt(a, b) ==
    /\ <<a, b>> \notin exempt.pairs
    /\ <<b, a>> \notin exempt.pairs

\* C8: for an ordinary reference A -> B that the validator has processed,
\* whose target is not "self", with neither (A,B) nor (B,A) exempted and both
\* placements declared, the validator raises the cross-plane relation error
\* exactly when placementOf(A) is not a subset of placementOf(B) or
\* placementOf(B) is not a subset of placementOf(A); when a placement is not
\* declared it raises the missing-placement error instead; a reference to
\* "self" never raises.
C8_CrossPlaneIffNotSubset ==
    (FieldProcessed /\ LastField.kind = "RelatedField") =>
        IF LastField.target = "self"
        THEN val.last.outcome = "ok"
        ELSE NeitherOrderingExempt(LastModel, LastField.target) =>
                IF meta[LastModel].declared /\ meta[LastField.target].declared
                THEN (val.last.outcome = "CrossPlaneRelationError")
                        <=> (\/ ~PlacementSubset(LastModel, LastField.target)
                             \/ ~PlacementSubset(LastField.target, LastModel))
                ELSE val.last.outcome = "MissingPlacementError"

\* C8 witness: a non-exempt ordinary reference from a CONTROL model to a
\* model of CONTROL and REGION, which passes in the declared ordering, raised
\* the cross-plane relation error.
C8_Witness ==
    /\ FieldProcessed
    /\ LastField.kind = "RelatedField"
    /\ LastField.target # "self"
    /\ NeitherOrderingExempt(LastModel, LastField.target)
    /\ meta[LastModel].declared
    /\ meta[LastField.target].declared
    /\ meta[LastModel].modes = {"CONTROL"}
    /\ meta[LastField.target].modes = {"CONTROL", "REGION"}
    /\ val.status = "raised"
    /\ val.error = "CrossPlaneRelationError"

\* The (source, target) pair validate_hcfk_has_global_id lets through.
IsCarveOut(a, b) == a = "NotificationSetting" /\ b = "Actor"

\* A processed cross-plane reference to a target that is not globally
\* identified and is not the carve-out.
LocalTargetProcessed ==
    /\ FieldProcessed
    /\ LastField.kind = "HybridCloudForeignKey"
    /\ ~meta[LastField.target].snowflake
    /\ ~IsCarveOut(LastModel, LastField.target)

\* C9 as stated: a processed cross-plane reference A -> B whose target is not
\* globally identified raises the global-identity error whatever the
\* placement of B, unless (A,B) is the carve-out pair.
C9_Original ==
    LocalTargetProcessed => val.last.outcome = "GlobalIdentityError"

\* C9: a processed cross-plane reference A -> B whose target is not globally
\* identified and which is not the carve-out pair raises the global-identity
\* error exactly when B has a declared placement containing REGION, and the
\* missing-placement error when B has no declared placement, whatever the
\* relation exemptions are; a reference to a globally identified target, or
\* the carve-out pair, does not raise.
C9_GlobalIdIffRegion ==
    /\ LocalTargetProcessed =>
          IF ~meta[LastField.target].declared
          THEN val.last.outcome = "MissingPlacementError"
          ELSE (val.last.outcome = "GlobalIdentityError")
                  <=> "REGION" \in meta[LastField.target].modes
    /\ (/\ FieldProcessed
        /\ LastField.kind = "HybridCloudForeignKey"
        /\ ~LocalTargetProcessed) => val.last.outcome = "ok"

\* C9 witness: a cross-plane reference to a REGION target that is not
\* globally identified raised the global-identity error although the pair is
\* in the relation exemptions.
C9_Witness ==
    /\ LocalTargetProcessed
    /\ meta[LastField.target].declared
    /\ "REGION" \in meta[LastField.target].modes
    /\ <<LastModel, LastField.target>> \in exempt.pairs
    /\ val.status = "raised"
    /\ val.error = "GlobalIdentityError"

\* The models validate_models_have_silos is asked about: those of the app
\* (every app when no app is named) outside the skipped namespaces.
InScope(m) ==
    /\ exempt.app_name \in {"None", meta[m].app}
    /\ meta[m].module \notin {"django.contrib.auth.models", "tests.sentry.models",
                              "fixtures.models"}

Placed(m) ==
    /\ meta[m].declared
    /\ meta[m].modes \cap {"CONTROL", "REGION"} # {}

SilosDone ==
    /\ val.fn = "validate_models_have_silos"
    /\ val.status \in {"returned", "raised"}

\* C10: validate_models_have_silos returns exactly when every in-scope model
\* outside the exemptions has a declared placement containing CONTROL or
\* REGION; when it raises, it raises on an in-scope model that is not exempt
\* and is not so placed; and a second run over the same metadata ends as the
\* first did.
C10_SucceedsIffAllPlaced ==
    SilosDone =>
        /\ (val.status = "returned")
              <=> (\A m \in Models : (InScope(m) /\ m \notin exempt.models) => Placed(m))
        /\ val.status = "raised" =>
              /\ InScope(val.last.model)
              /\ val.last.model \notin exempt.models
              /\ ~Placed(val.last.model)
        /\ val.pass = 2 =>
              val.first = (IF val.status = "raised" THEN val.error ELSE "returned")

\* C10 witness: the second run raised on a non-exempt MONOLITH model, after
\* an exempt model without a declared placement was let through.
C10_Witness ==
    /\ SilosDone
    /\ val.pass = 2
    /\ val.status = "raised"
    /\ val.error = "UnplacedEntityError"
    /\ meta[val.last.model].modes = {"MONOLITH"}
    /\ \E m \in exempt.models : InScope(m) /\ ~meta[m].declared

\* The child relation the deletions validator processed last.
RelationProcessed ==
    /\ val.fn = "validate_no_cross_silo_deletions"
    /\ val.last.fi > 0

LastChild == meta[val.last.model].children[val.last.fi]

\* The cascades the claim forbids: an iterated parent with a declared
\* placement and a child target, neither ordering exempted, where some plane
\* of the parent is not a plane of the child.
ForbiddenCascades ==
    {pc \in Models \X Models :
        /\ ~SkippedModule(meta[pc[1]].module)
        /\ meta[pc[1]].declared
        /\ pc[2] \in Range(meta[pc[1]].children)
        /\ NeitherOrderingExempt(pc[1], pc[2])
        /\ ~PlacementSubset(pc[1], pc[2])}

\* Every child target that is not exempted has a declared placement.
ChildrenDeclared ==
    \A p \in Models, c \in Models :
        (/\ ~SkippedModule(meta[p].module) /\ meta[p].declared
         /\ c \in Range(meta[p].children)
         /\ NeitherOrderingExempt(p, c)) => meta[c].declared

\* C11: validate_no_cross_silo_deletions raises the cascade-placement error
\* exactly when some iterated model P with a declared placement has a child
\* relation target C, with neither (P,C) nor (C,P) exempted, such that some
\* plane of P is not a plane of C; the test is one-directional: a child valid
\* in more planes than its parent is accepted. (placementOf a child without a
\* declared placement fails with the missing-placement error, so the
\* equivalence is stated where the children's placements are declared.)
C11_CascadeIffParentNotSubset ==
    /\ (RelationProcessed /\ NeitherOrderingExempt(LastModel, LastChild)) =>
          IF meta[LastChild].declared
          THEN (val.last.outcome = "CascadePlacementError")
                  <=> ~PlacementSubset(LastModel, LastChild)
          ELSE val.last.outcome = "MissingPlacementError"
    /\ (RelationProcessed /\ ~NeitherOrderingExempt(LastModel, LastChild)) =>
          val.last.outcome = "ok"
    /\ (val.fn = "validate_no_cross_silo_deletions"
          /\ val.status \in {"returned", "raised"} /\ ChildrenDeclared) =>
          ((val.status = "raised" /\ val.error = "CascadePlacementError")
              <=> ForbiddenCascades # {})

\* C11 witness: a CONTROL parent cascading to a child of CONTROL and REGION
\* was accepted, and a parent of CONTROL and REGION cascading to a CONTROL
\* child raised.
C11_Witness ==
    /\ RelationProcessed
    /\ val.status = "raised"
    /\ val.error = "CascadePlacementError"
    /\ val.last.model = "Actor"
    /\ meta["Actor"].modes = {"CONTROL", "REGION"}
    /\ meta["NotificationSetting"].modes = {"CONTROL"}
    /\ ~SkippedModule(meta["NotificationSetting"].module)
    /\ meta["NotificationSetting"].children = <<"Actor">>
    /\ exempt.pairs = {}

\* An ordinary reference to another model was processed, one of its two
\* orderings is exempted, and both placements are declared.
ExemptEdgeProcessed ==
    /\ FieldProcessed
    /\ LastField.kind = "RelatedField"
    /\ LastField.target # "self"
    /\ ~NeitherOrderingExempt(LastModel, LastField.target)
    /\ meta[LastModel].declared
    /\ meta[LastField.target].declared

\* The exempted orderings of the processed edge.
ExemptOrderings ==
    exempt.pairs \cap {<<LastModel, LastField.target>>, <<LastField.target, LastModel>>}

\* An ordered pair whose first model runs in a plane the second does not.
Crosses(p) == ~PlacementSubset(p[1], p[2])

\* C17 as stated: for a processed ordinary reference A -> B with (A,B) or
\* (B,A) exempted whose placements are incompatible in at least one ordering,
\* no cross-plane relation error is raised and the exempted pair is in seen.
C17_Original ==
    (/\ ExemptEdgeProcessed
     /\ (Crosses(<<LastModel, LastField.target>>) \/ Crosses(<<LastField.target, LastModel>>))) =>
        /\ val.last.outcome # "CrossPlaneRelationError"
        /\ ExemptOrderings \cap val.seen # {}

\* C17 (amended): exemptions are ordered pairs. For a processed ordinary
\* reference A -> B, when an exempted ordering (X,Y) of it is itself
\* incompatible (some plane of X is not a plane of Y), no error is raised
\* for the edge and an exempted incompatible ordering of it is in seen; when
\* no exempted ordering is incompatible the exemption suppresses nothing:
\* the cross-plane relation error is raised exactly when the placements
\* differ.
C17_ExemptOrderingCrosses ==
    ExemptEdgeProcessed =>
        IF \E p \in ExemptOrderings : Crosses(p)
        THEN /\ val.last.outcome = "ok"
             /\ \E p \in ExemptOrderings : Crosses(p) /\ p \in val.seen
        ELSE (val.last.outcome = "CrossPlaneRelationError")
                <=> (meta[LastModel].modes # meta[LastField.target].modes)

\* C17 witness: a reference from a CONTROL model to a REGION model, exempted
\* in the declared ordering, was accepted, the pair is in seen, and the call
\* returned.
C17_Witness ==
    /\ ExemptEdgeProcessed
    /\ val.status = "returned"
    /\ meta[LastModel].modes = {"CONTROL"}
    /\ meta[LastField.target].modes = {"REGION"}
    /\ <<LastModel, LastField.target>> \in exempt.pairs
    /\ <<LastModel, LastField.target>> \in val.seen

\* The processed edge has an exemption and fully compatible placements.
StaleEdgeProcessed ==
    /\ ExemptEdgeProcessed
    /\ ~Crosses(<<LastModel, LastField.target>>)
    /\ ~Crosses(<<LastField.target, LastModel>>)

\* C18 as stated: for a processed ordinary reference whose pair is exempted
\* but whose placements are fully compatible, no error is raised and the
\* exempted pair is recorded in seen.
C18_Original ==
    StaleEdgeProcessed =>
        /\ val.last.outcome = "ok"
        /\ ExemptOrderings \cap val.seen # {}

\* C18 (amended): for a processed ordinary reference whose pair is exempted
\* but whose placements are fully compatible, no error is raised and the
\* pair is not recorded: seen only ever holds exempted ordered pairs that
\* are incompatible, so a stale exemption is one that is missing from seen.
C18_StaleNotRecorded ==
    /\ StaleEdgeProcessed =>
          /\ val.last.outcome = "ok"
          /\ ExemptOrderings \cap val.seen = {}
    /\ val.fn = "validate_no_cross_silo_foreign_keys" =>
          \A p \in val.seen :
              /\ p \in exempt.pairs
              /\ meta[p[1]].declared /\ meta[p[2]].declared
              /\ Crosses(p)

\* C18 witness: the call returned after a reference between two CONTROL
\* models, exempted in both orderings, and seen is empty.
C18_Witness ==
    /\ StaleEdgeProcessed
    /\ val.status = "returned"
    /\ Cardinality(ExemptOrderings) = 2
    /\ meta[LastModel].modes = {"CONTROL"}
    /\ val.seen = {}

(***************************************************************************)
(* Two executions establishing and tearing down configuration contexts on  *)
(* the same process-wide settings, their steps interleaved in any order    *)
(***************************************************************************)

\* The two executions that share the process.
Executions == {1, 2}

\* Neither execution has established its context yet.  trace is the order of
\* the enter and exit steps so far, live the owners of the frames in stack,
\* before the settings each execution found when it established its context,
\* managers the number of context managers its context entered.
NoThreads ==
    [status |-> "interleaved",
     pc |-> <<"idle", "idle">>,
     plane |-> <<"", "">>,
     before |-> <<BaseSettings, BaseSettings>>,
     managers |-> <<0, 0>>,
     live |-> <<>>,
     trace |-> <<>>]

InitInterleaved ==
    /\ ScanIdle
    /\ MuxIdle
    /\ ValIdle
    /\ settings = BaseSettings
    /\ stack = <<>>
    /\ run = NoThreads

\* The sequence without its i-th element.
RemoveAt(seq, i) == SubSeq(seq, 1, i - 1) \o SubSeq(seq, i + 1, Len(seq))

\* The position in stack of the frame execution t established.
FrameOf(t) == CHOOSE i \in DOMAIN run.live : run.live[i] = t

\* Execution t has established a context: it runs its body under it.
Established(t, cm, entered, desired, can) ==
    /\ settings' = entered.settings
    /\ stack' = Append(stack, Frame(cm, entered, settings, desired, can))
    /\ run' = [run EXCEPT !.pc[t] = "body",
                          !.plane[t] = entered.plane,
                          !.before[t] = settings,
                          !.managers[t] = Len(entered.entries),
                          !.live = Append(@, t),
                          !.trace = Append(@, <<"enter", t>>)]

\* Execution t enters with self.test_config(silo_mode): of a wrapper.
EstablishTestConfig(t, regions, silo_mode) ==
    /\ run.pc[t] = "idle"
    /\ Established(t, "test_config", test_config(settings, regions, silo_mode),
                   silo_mode, FALSE)

\* Execution t enters with assume_test_silo_mode(desired_silo, can_be_monolith):
EstablishAssume(t, desired_silo, can_be_monolith) ==
    /\ run.pc[t] = "idle"
    /\ Established(t, "assume",
                   assume_test_silo_mode(settings, desired_silo, can_be_monolith),
                   desired_silo, can_be_monolith)

\* The with block of execution t ends: the context managers it entered exit,
\* each putting back what it saved, whatever the settings are by now.
TearDown(t) ==
    /\ run.pc[t] = "body"
    /\ settings' = ExitEntries(settings, stack[FrameOf(t)].entries)
    /\ stack' = RemoveAt(stack, FrameOf(t))
    /\ run' = [run EXCEPT !.pc[t] = "done",
                          !.live = RemoveAt(@, FrameOf(t)),
                          !.trace = Append(@, <<"exit", t>>)]

NextInterleaved ==
    \/ \E t \in Executions, regions \in {_DEFAULT_TEST_REGIONS, RegionsOverride},
          silo_mode \in SiloModes :
          EstablishTestConfig(t, regions, silo_mode)
          /\ UNCHANGED <<scanVars, muxVars, valVars>>
    \/ \E t \in Executions, desired_silo \in SiloModes, can_be_monolith \in BOOLEAN :
          EstablishAssume(t, desired_silo, can_be_monolith)
          /\ UNCHANGED <<scanVars, muxVars, valVars>>
    \/ \E t \in Executions : TearDown(t) /\ UNCHANGED <<scanVars, muxVars, valVars>>

SpecInterleaved == InitInterleaved /\ [][NextInterleaved]_vars

(***************************************************************************)
(* Claims about the interleaved executions                                 *)
(***************************************************************************)

\* The kinds of the steps so far, and the executions that took them.
TraceKinds == [i \in DOMAIN run.trace |-> run.trace[i][1]]
TraceOwners == [i \in DOMAIN run.trace |-> run.trace[i][2]]

\* Both contexts are established and neither has exited.
BothInBody == run.pc = <<"body", "body">>

\* Both contexts have exited.
BothExited == run.pc = <<"done", "done">>

\* The contexts were entered one inside the other and exited in the order
\* they were entered: enter a, enter b, exit a, exit b.
NonLifo ==
    /\ Len(run.trace) >= 3
    /\ SubSeq(TraceKinds, 1, 3) = <<"enter", "enter", "exit">>
    /\ TraceOwners[3] = TraceOwners[1]

\* The contexts did not overlap, or the inner one exited first.
Serialized ==
    \/ /\ Len(run.trace) >= 2
       /\ SubSeq(TraceKinds, 1, 2) = <<"enter", "exit">>
    \/ /\ Len(run.trace) >= 3
       /\ SubSeq(TraceKinds, 1, 3) = <<"enter", "enter", "exit">>
       /\ TraceOwners[3] = TraceOwners[2]

\* The execution that established its context first, and the other one.
FirstIn == TraceOwners[1]
SecondIn == CHOOSE t \in Executions : t # FirstIn

\* The settings object alone, without the region directory that
\* override_regions swaps.
Ambient(st) == [st EXCEPT !.regions = BaseSettings.regions]

\* The context of execution t entered a context manager: an
\* assume_test_silo_mode that finds nothing to override enters none.
Entered(t) == run.managers[t] > 0

\* C21: two executions on the same process-wide settings are safe only when
\* serialized.  While both contexts are established, the active plane is
\* the one of the context established last, so the body of the other
\* execution observes it.  When the context established first exits first,
\* it puts back the settings object from before either context while the
\* other body is still running, and the exit of the other context then puts
\* back the settings object that was in force inside the first context:
\* both have exited and, exactly when both contexts had overridden
\* something, the settings are not those from before either.  When the
\* contexts do not overlap, or exit in last-in first-out order, the settings
\* after both exits are those from before either.
C21_UnsafeWhenInterleaved ==
    /\ BothInBody => settings.SILO_MODE = run.plane[SecondIn]
    /\ (NonLifo /\ run.pc[SecondIn] = "body" /\ Entered(FirstIn)) =>
          Ambient(settings) = BaseSettings
    /\ (NonLifo /\ BothExited) =>
          /\ Entered(SecondIn) => Ambient(settings) = Ambient(run.before[SecondIn])
          /\ settings # BaseSettings <=> (Entered(FirstIn) /\ Entered(SecondIn))
    /\ (Serialized /\ BothExited) => settings = BaseSettings

\* C21 witness: a CONTROL context, then a REGION context inside it, exited
\* in the order they were entered: both have exited and the process is left
\* in the CONTROL plane, not in the settings from before either.
C21_Witness ==
    /\ NonLifo
    /\ BothExited
    /\ run.plane[FirstIn] = "CONTROL"
    /\ run.plane[SecondIn] = "REGION"
    /\ settings.SILO_MODE = "CONTROL"
    /\ settings # BaseSettings

====
